---- MODULE Spec2Model ----
(***************************************************************************)
(* A model of build_poi_db.py: the classification functions, the geometry  *)
(* reduction, the per-region import into the SQLite store and the          *)
(* multi-region driver.                                                    *)
(*                                                                         *)
(* Encoding.  A tag mapping (props) is a record over all the keys the      *)
(* program reads; a key that is absent from the mapping holds None, so     *)
(* props.get(k) is props[k].  A missing "id" holds NoId.  Numbers are      *)
(* exact fractions <<n, d>> in lowest terms.  A table is a function from   *)
(* its primary keys to its rows.  The empty tuple <<>> is Python's None    *)
(* where the program returns None or a tuple.                              *)
(***************************************************************************)
EXTENDS Integers, Sequences, FiniteSets, TLC

\* ------------------------------------------------------------ bounds
MaxRecords == 2
NumRegions == 2
MaxId == 2

\* ------------------------------------------------------------ values
None == "<None>"
NoId == 0

Truthy(v) == v # None /\ v # ""

\* ------------------------------------------------------------ strings
\* str.replace and str.title work on characters: Chars spells the strings
\* they are applied to or produce, Str reads a spelling back.
Spelled ==
  { "standing_stone", "megalith", "stone",
    "standing stone", "Standing_Stone", "Standing_stone", "Standing stone",
    "Standing Stone", "Megalith", "Stone" }

Chars(s) ==
  CASE s = "standing_stone" -> <<"s","t","a","n","d","i","n","g","_","s","t","o","n","e">>
    [] s = "standing stone" -> <<"s","t","a","n","d","i","n","g"," ","s","t","o","n","e">>
    [] s = "Standing_Stone" -> <<"S","t","a","n","d","i","n","g","_","S","t","o","n","e">>
    [] s = "Standing_stone" -> <<"S","t","a","n","d","i","n","g","_","s","t","o","n","e">>
    [] s = "Standing stone" -> <<"S","t","a","n","d","i","n","g"," ","s","t","o","n","e">>
    [] s = "Standing Stone" -> <<"S","t","a","n","d","i","n","g"," ","S","t","o","n","e">>
    [] s = "megalith" -> <<"m","e","g","a","l","i","t","h">>
    [] s = "Megalith" -> <<"M","e","g","a","l","i","t","h">>
    [] s = "stone" -> <<"s","t","o","n","e">>
    [] s = "Stone" -> <<"S","t","o","n","e">>

Str(cs) == CHOOSE s \in Spelled : Chars(s) = cs

LowerCase == <<"a","d","e","g","h","i","l","m","n","o","s","t">>
UpperCase == <<"A","D","E","G","H","I","L","M","N","O","S","T">>

IndexIn(c, alphabet) ==
  IF \E i \in 1..Len(alphabet) : alphabet[i] = c
    THEN CHOOSE i \in 1..Len(alphabet) : alphabet[i] = c
    ELSE 0

IsCased(c) == IndexIn(c, LowerCase) > 0 \/ IndexIn(c, UpperCase) > 0

Upper(c) == IF IndexIn(c, LowerCase) > 0 THEN UpperCase[IndexIn(c, LowerCase)] ELSE c

Lower(c) == IF IndexIn(c, UpperCase) > 0 THEN LowerCase[IndexIn(c, UpperCase)] ELSE c

\* str.replace(old, new) for one-character old and new
Replace(cs, old, new) ==
  [i \in 1..Len(cs) |-> IF cs[i] = old THEN new ELSE cs[i]]

\* str.title(): a cased character is upper-cased when the character before
\* it is not cased (or there is none) and lower-cased otherwise
Title(cs) ==
  [i \in 1..Len(cs) |->
     IF IsCased(cs[i])
       THEN IF i > 1 /\ IsCased(cs[i - 1]) THEN Lower(cs[i]) ELSE Upper(cs[i])
       ELSE cs[i]]

\* ------------------------------------------------------------ numbers
RECURSIVE Gcd(_, _)
Gcd(a, b) == IF b = 0 THEN a ELSE Gcd(b, a % b)

Abs(x) == IF x < 0 THEN -x ELSE x

\* n / d for d > 0, in lowest terms
Frac(n, d) ==
  LET g == Gcd(Abs(n), d) IN <<n \div g, d \div g>>

RECURSIVE Sum(_)
Sum(xs) == IF Len(xs) = 0 THEN 0 ELSE Head(xs) + Sum(Tail(xs))

RECURSIVE Flatten(_)
Flatten(rings) == IF Len(rings) = 0 THEN <<>> ELSE Head(rings) \o Flatten(Tail(rings))

\* ------------------------------------------------------------ geometry
\* the list comprehension / index [0] raises IndexError
OuterRingMissing(geom) ==
  IF geom.type = "Polygon"
    THEN Len(geom.coordinates) = 0
    ELSE \E i \in 1..Len(geom.coordinates) : Len(geom.coordinates[i]) = 0

OuterRings(geom) ==
  IF geom.type = "Polygon"
    THEN <<geom.coordinates[1]>>
    ELSE [i \in 1..Len(geom.coordinates) |-> geom.coordinates[i][1]]

\* centroid_from_geom raises (IndexError, or ZeroDivisionError on len(lons) = 0)
centroid_raises(geom) ==
  \/ OuterRingMissing(geom)
  \/ Len(Flatten(OuterRings(geom))) = 0

\* <<lon, lat>>, the unweighted mean of the pooled outer-ring vertices
centroid_from_geom(geom) ==
  LET pts == Flatten(OuterRings(geom))
      lons == [i \in 1..Len(pts) |-> pts[i][1]]
      lats == [i \in 1..Len(pts) |-> pts[i][2]]
  IN  <<Frac(Sum(lons), Len(lons)), Frac(Sum(lats), Len(lats))>>

\* ------------------------------------------------------------ classification
\* a classify whose place rules are checked last, after every other rule
classify_place_last(props) ==
  IF props.historic = "castle" THEN <<1, "castle">>
  ELSE IF props.historic \in {"abbey", "monastery"} THEN <<2, "abbey">>
  ELSE IF Truthy(props.historic) THEN <<7, props.historic>>
  ELSE IF props.amenity = "place_of_worship"
    THEN <<3, IF props.religion # None THEN props.religion ELSE "worship">>
  ELSE IF props.amenity = "cafe" THEN <<10, "cafe">>
  ELSE IF props.amenity = "pub" THEN <<11, "pub">>
  ELSE IF props.amenity = "restaurant" THEN <<12, "restaurant">>
  ELSE IF props.amenity = "fast_food" THEN <<13, "fast_food">>
  ELSE IF props.amenity = "bar" THEN <<14, "bar">>
  ELSE IF Truthy(props.shop) THEN <<20, props.shop>>
  ELSE IF props.tourism \in {"attraction", "museum", "viewpoint"} THEN <<30, props.tourism>>
  ELSE IF Truthy(props.leisure) THEN <<40, props.leisure>>
  ELSE IF props.natural = "peak" THEN <<50, "peak">>
  ELSE IF props.man_made = "survey_point" THEN <<51, "trig_point">>
  ELSE IF props.place = "city" THEN <<100, "city">>
  ELSE IF props.place = "town" THEN <<101, "town">>
  ELSE IF props.place = "village" THEN <<102, "village">>
  ELSE IF props.place = "hamlet" THEN <<103, "hamlet">>
  ELSE IF props.place = "suburb" THEN <<104, "suburb">>
  ELSE <<>>

\* <<type, subtype>>, or <<>> for None
classify(props) ==
  IF props.place = "city" THEN <<100, "city">>
  ELSE IF props.place = "town" THEN <<101, "town">>
  ELSE IF props.place = "village" THEN <<102, "village">>
  ELSE IF props.place = "hamlet" THEN <<103, "hamlet">>
  ELSE IF props.place = "suburb" THEN <<104, "suburb">>
  ELSE IF props.historic = "castle" THEN <<1, "castle">>
  ELSE IF props.historic \in {"abbey", "monastery"} THEN <<2, "abbey">>
  ELSE IF Truthy(props.historic) THEN <<7, props.historic>>
  ELSE IF props.amenity = "place_of_worship"
    THEN <<3, IF props.religion # None THEN props.religion ELSE "worship">>
  ELSE IF props.amenity = "cafe" THEN <<10, "cafe">>
  ELSE IF props.amenity = "pub" THEN <<11, "pub">>
  ELSE IF props.amenity = "restaurant" THEN <<12, "restaurant">>
  ELSE IF props.amenity = "fast_food" THEN <<13, "fast_food">>
  ELSE IF props.amenity = "bar" THEN <<14, "bar">>
  ELSE IF Truthy(props.shop) THEN <<20, props.shop>>
  ELSE IF props.tourism \in {"attraction", "museum", "viewpoint"} THEN <<30, props.tourism>>
  ELSE IF Truthy(props.leisure) THEN <<40, props.leisure>>
  ELSE IF props.natural = "peak" THEN <<50, "peak">>
  ELSE IF props.man_made = "survey_point" THEN <<51, "trig_point">>
  ELSE <<>>

\* a classify_geo that has lost its natural=peak rule
classify_geo_island_only(props) ==
  IF props.place = "island" THEN "island" ELSE None

classify_geo(props) ==
  IF props.place = "island" THEN "island"
  ELSE IF props.natural = "peak" THEN "peak"
  ELSE None

\* ------------------------------------------------------------ name derivation
\* a derivation that forgets .title()
derive_name_untitled(props) ==
  IF ~Truthy(props.name) /\ props.historic \in {"standing_stone", "megalith", "stone"}
    THEN Str(Replace(Chars(props.historic), "_", " "))
    ELSE props.name

\* the POI name: the name tag, or the historic value made presentable
derive_name(props) ==
  IF ~Truthy(props.name) /\ props.historic \in {"standing_stone", "megalith", "stone"}
    THEN Str(Title(Replace(Chars(props.historic), "_", " ")))
    ELSE props.name

\* ------------------------------------------------------------ store
Max(S) == CHOOSE m \in S : \A x \in S : x <= m

EmptyTable == <<>>

\* the rowid SQLite gives a row inserted with a NULL primary key
NewRowid(table) == IF DOMAIN table = {} THEN 1 ELSE Max(DOMAIN table) + 1

\* INSERT OR REPLACE: a duplicate key overwrites the row
InsertOrReplace(table, id, row) ==
  IF id = NoId
    THEN LET k == NewRowid(table) IN table @@ (k :> [row EXCEPT !.id = k])
    ELSE [k \in DOMAIN table \cup {id} |-> IF k = id THEN row ELSE table[k]]

\* INSERT OR IGNORE: a duplicate key leaves the table as it is
InsertOrIgnore(table, id, row) ==
  IF id = NoId
    THEN LET k == NewRowid(table) IN table @@ (k :> [row EXCEPT !.id = k])
    ELSE IF id \in DOMAIN table THEN table ELSE table @@ (id :> row)

EmptyStore ==
  [pois |-> EmptyTable, poi_index |-> EmptyTable,
   geo_features |-> EmptyTable, geo_index |-> EmptyTable]

\* a connection in autocommit mode: every insert is on disk at once
OnDiskAutocommit(disk, view) == view

\* what the store file holds after an insert on the connection: the insert
\* opens (or stays in) the connection's implicit transaction, so the file
\* keeps its committed content until commit()
OnDiskAfterInsert(disk, view) == disk

\* ------------------------------------------------------------ external engine
\* a run that does not check the exit status
run_unchecked(ok) == "returned"

\* subprocess.run(cmd, check=True): a nonzero exit raises CalledProcessError
run(ok) == IF ok THEN "returned" ELSE "raised"

\* ------------------------------------------------------------ inputs
NoTags ==
  [id |-> NoId, name |-> None, place |-> None, historic |-> None,
   amenity |-> None, religion |-> None, shop |-> None, tourism |-> None,
   leisure |-> None, natural |-> None, man_made |-> None]

\* the tag mappings of the records an export can hold (without their id)
TagSets ==
  << [NoTags EXCEPT !.name = "A", !.historic = "castle", !.place = "city"],
     [NoTags EXCEPT !.historic = "standing_stone"],
     [NoTags EXCEPT !.name = "A", !.amenity = "cafe"],
     [NoTags EXCEPT !.name = "A", !.natural = "peak"],
     [NoTags EXCEPT !.natural = "peak"],
     [NoTags EXCEPT !.name = "B", !.place = "island"],
     [NoTags EXCEPT !.amenity = "cafe"],
     [NoTags EXCEPT !.name = "A"],
     [NoTags EXCEPT !.name = "", !.historic = "stone"],
     [NoTags EXCEPT !.historic = "megalith"] >>

Square == << <<0, 0>>, <<0, 2>>, <<2, 2>>, <<2, 0>>, <<0, 0>> >>
Hole == << <<1, 1>>, <<1, 1>>, <<1, 1>> >>
Triangle == << <<3, 0>>, <<6, 0>>, <<3, 3>>, <<3, 0>> >>

Geometries ==
  << [type |-> "Point", coordinates |-> <<1, 2>>],
     [type |-> "Polygon", coordinates |-> <<Square, Hole>>],
     [type |-> "MultiPolygon", coordinates |-> << <<Square, Hole>>, <<Triangle>> >>],
     [type |-> "Polygon", coordinates |-> << <<>> >>],
     [type |-> "LineString", coordinates |-> << <<0, 0>>, <<1, 1>> >>] >>

\* <<geometry, tags, id>>: as a Point, a named POI and a geo-feature under
\* every id (or none) and the other tag mappings under id 1; the other
\* geometries under id 1, a MultiPolygon geo-feature and the rest POIs
FeatureChoices ==
  { c \in (1..Len(Geometries)) \X (1..Len(TagSets)) \X ({NoId} \cup (1..MaxId)) :
      \/ c[1] = 1 /\ (c[2] \in {3, 4} \/ c[3] = 1)
      \/ c[1] \in {2, 4, 5} /\ c[2] = 3 /\ c[3] = 1
      \/ c[1] = 3 /\ c[2] = 4 /\ c[3] = 1 }

Feature(c) ==
  [geometry |-> Geometries[c[1]],
   properties |-> [TagSets[c[2]] EXCEPT !.id = c[3]]]

PlaceValues == {None, "city", "town", "village", "hamlet", "suburb", "island"}
HistoricValues == {None, "", "castle", "abbey", "monastery", "ruins"}
AmenityValues ==
  {None, "place_of_worship", "cafe", "pub", "restaurant", "fast_food", "bar", "bank"}
TourismValues == {None, "attraction", "museum", "viewpoint", "hotel"}

\* the tag mappings classify is checked on: base with every combination of
\* these values for the keys classify reads
TagMappings(base) ==
  { [base EXCEPT !.place = pl, !.historic = hi, !.amenity = am, !.religion = re,
                   !.shop = sh, !.tourism = to, !.leisure = le, !.natural = na,
                   !.man_made = mm] :
      pl \in PlaceValues, hi \in HistoricValues, am \in AmenityValues,
      re \in {None, "christian"}, sh \in {None, "bakery"}, to \in TourismValues,
      le \in {None, "park"}, na \in {None, "peak", "wood"},
      mm \in {None, "survey_point", "tower"} }

\* ------------------------------------------------------------ state
VARIABLES
  pc,            \* where the program is
  region,        \* the index in pbf_files of the region being built (0: none yet)
  filtered_pbf,  \* the regions whose <region>-filtered.osm.pbf exists
  geojson,       \* the regions whose <region>.geojson exists
  engineFailed,  \* the regions for which an osmium call exited non-zero
  disk,          \* the committed content of the region's store file
  pois, poi_index, geo_features, geo_index,  \* the tables as the connection sees them
  imported,      \* build_region's counter
  nread,         \* records of data["features"] the loop has taken
  path,          \* the way the loop body was left for the last record
  finished,      \* how many regions have printed their summary
  reported,      \* the "POIs imported" count of the last summary printed
  banner,        \* "=== ALL REGIONS COMPLETE ===" was printed
  failed,        \* the step that raised, "none" while nothing has
  exitStatus,    \* the exit status, meaningful when pc = "exit"
  props,         \* classify's argument
  classification \* classify's result

vars ==
  <<pc, region, filtered_pbf, geojson, engineFailed, disk,
    pois, poi_index, geo_features, geo_index, imported, nread, path,
    reported, banner, failed, exitStatus, props, classification>>

tables == <<pois, poi_index, geo_features, geo_index>>

View ==
  [pois |-> pois, poi_index |-> poi_index,
   geo_features |-> geo_features, geo_index |-> geo_index]

files == <<filtered_pbf, geojson>>
callvars == <<props, classification>>
loopvars == <<imported, nread, path>>
outvars == <<finished, reported, banner>>

Init ==
  /\ pc = "main"
  /\ region = 0
  /\ filtered_pbf = {}
  /\ geojson = {}
  /\ engineFailed = {}
  /\ disk = EmptyStore
  /\ pois = EmptyTable
  /\ poi_index = EmptyTable
  /\ geo_features = EmptyTable
  /\ geo_index = EmptyTable
  /\ imported = 0
  /\ nread = 0
  /\ path = "none"
  /\ finished = 0
  /\ reported = 0
  /\ banner = FALSE
  /\ failed = "none"
  /\ exitStatus = 0
  /\ props = NoTags
  /\ classification = <<>>

\* an exception nobody catches: the traceback is printed and the process
\* exits with status 1; an open transaction is never committed, so the store
\* file keeps its committed content
Raise(step) ==
  /\ pc' = "exit"
  /\ failed' = step
  /\ exitStatus' = 1
  /\ UNCHANGED <<region, disk, tables, outvars, callvars>>

\* ------------------------------------------------------------ main
\* pbf_files is empty: the message is printed and sys.exit(1)
NoFiles ==
  /\ pc = "main"
  /\ region = 0
  /\ pc' = "exit"
  /\ failed' = "nofiles"
  /\ exitStatus' = 1
  /\ UNCHANGED <<region, files, engineFailed, disk, tables, loopvars,
                 outvars, callvars>>

\* pbf_files holds another file: the for loop of main calls build_region
BeginRegion ==
  /\ pc = "main"
  /\ region < NumRegions
  /\ region' = region + 1
  /\ pc' = "filter"
  /\ disk' = EmptyStore
  /\ pois' = EmptyTable
  /\ poi_index' = EmptyTable
  /\ geo_features' = EmptyTable
  /\ geo_index' = EmptyTable
  /\ imported' = 0
  /\ nread' = 0
  /\ path' = "none"
  /\ UNCHANGED <<files, engineFailed, outvars, failed, exitStatus, callvars>>

\* pbf_files is exhausted after at least one file
AllComplete ==
  /\ pc = "main"
  /\ region > 0
  /\ banner' = TRUE
  /\ pc' = "exit"
  /\ exitStatus' = 0
  /\ UNCHANGED <<region, files, engineFailed, disk, tables, loopvars,
                 finished, reported, failed, callvars>>

\* ------------------------------------------------------------ build_region
\* osmium tags-filter: on success the filtered extract exists; on failure it
\* may or may not have been written
FilterExtract ==
  /\ pc = "filter"
  /\ \E ok \in BOOLEAN, written \in BOOLEAN :
       /\ ok => written
       /\ filtered_pbf' = IF written THEN filtered_pbf \cup {region} ELSE filtered_pbf
       /\ engineFailed' = IF ok THEN engineFailed ELSE engineFailed \cup {region}
       /\ IF run(ok) = "raised"
            THEN Raise("filter") /\ UNCHANGED <<geojson, loopvars>>
            ELSE /\ pc' = "export"
                 /\ UNCHANGED <<region, geojson, disk, tables, loopvars,
                                outvars, failed, exitStatus, callvars>>

\* osmium export
ExportRecords ==
  /\ pc = "export"
  /\ \E ok \in BOOLEAN, written \in BOOLEAN :
       /\ ok => written
       /\ geojson' = IF written THEN geojson \cup {region} ELSE geojson
       /\ engineFailed' = IF ok THEN engineFailed ELSE engineFailed \cup {region}
       /\ IF run(ok) = "raised"
            THEN Raise("export") /\ UNCHANGED <<filtered_pbf, loopvars>>
            ELSE /\ pc' = "schema"
                 /\ UNCHANGED <<region, filtered_pbf, disk, tables, loopvars,
                                outvars, failed, exitStatus, callvars>>

\* sqlite3.connect and executescript(SCHEMA_SQL): the four tables are dropped
\* and created again, committed as the script runs
CreateSchema ==
  /\ pc = "schema"
  /\ disk' = EmptyStore
  /\ pois' = EmptyTable
  /\ poi_index' = EmptyTable
  /\ geo_features' = EmptyTable
  /\ geo_index' = EmptyTable
  /\ pc' = "load"
  /\ UNCHANGED <<region, files, engineFailed, loopvars, outvars, failed,
                 exitStatus, callvars>>

\* json.load of the exported file, which may not hold a feature collection
ParseRecords ==
  /\ pc = "load"
  /\ \E wellformed \in BOOLEAN :
       IF wellformed
         THEN /\ pc' = "loop"
              /\ imported' = 0
              /\ UNCHANGED <<region, files, engineFailed, disk, tables, nread,
                             path, outvars, failed, exitStatus, callvars>>
         ELSE Raise("load") /\ UNCHANGED <<files, engineFailed, loopvars>>

\* the row and the index entry one record inserts
PoiRow(id, lonlat, cls, name, tags) ==
  [id |-> id, lat |-> lonlat[2], lon |-> lonlat[1], type |-> cls[1],
   name |-> name, subtype |-> cls[2], tags |-> tags]

GeoRow(id, lonlat, kind, tags) ==
  [id |-> id, lat |-> lonlat[2], lon |-> lonlat[1], kind |-> kind,
   name |-> tags.name, tags |-> tags]

IndexRow(id, lonlat) ==
  [id |-> id, minLat |-> lonlat[2], maxLat |-> lonlat[2],
   minLon |-> lonlat[1], maxLon |-> lonlat[1]]

\* `continue`: on to the next record with nothing written
Continue(why) ==
  /\ path' = why
  /\ nread' = nread + 1
  /\ pc' = "loop"
  /\ UNCHANGED <<region, files, engineFailed, disk, tables, imported,
                 outvars, failed, exitStatus, callvars>>

\* one pass of the body of `for feat in data["features"]`
ProcessRecord(feat) ==
  LET geom == feat.geometry
      tags == feat.properties
      osm_id == tags.id
      lonlat ==
        IF geom.type = "Point"
          THEN <<Frac(geom.coordinates[1], 1), Frac(geom.coordinates[2], 1)>>
          ELSE centroid_from_geom(geom)
      geo_kind == classify_geo(tags)
      name == derive_name(tags)
      cls == classify(tags)
  IN
  /\ pc = "loop"
  /\ nread < MaxRecords
  /\ IF geom.type \notin {"Point", "Polygon", "MultiPolygon"}
       THEN Continue("geometry")
     ELSE IF geom.type # "Point" /\ centroid_raises(geom)
       THEN /\ Raise("record")
            /\ path' = "raised"
            /\ nread' = nread + 1
            /\ UNCHANGED <<files, engineFailed, imported>>
     ELSE IF geo_kind # None
       THEN /\ geo_features' = InsertOrIgnore(geo_features, osm_id,
                                              GeoRow(osm_id, lonlat, geo_kind, tags))
            /\ geo_index' = InsertOrIgnore(geo_index, osm_id, IndexRow(osm_id, lonlat))
            /\ disk' = OnDiskAfterInsert(disk, [View EXCEPT !.geo_features = geo_features',
                                                            !.geo_index = geo_index'])
            /\ path' = "geo"
            /\ nread' = nread + 1
            /\ pc' = "loop"
            /\ UNCHANGED <<region, files, engineFailed, pois, poi_index,
                           imported, outvars, failed, exitStatus, callvars>>
     ELSE IF ~Truthy(name)
       THEN Continue("noname")
     ELSE IF cls = <<>>
       THEN Continue("noclass")
     ELSE /\ pois' = InsertOrIgnore(pois, osm_id, PoiRow(osm_id, lonlat, cls, name, tags))
          /\ poi_index' = InsertOrIgnore(poi_index, osm_id, IndexRow(osm_id, lonlat))
          /\ disk' = OnDiskAfterInsert(disk, [View EXCEPT !.pois = pois',
                                                          !.poi_index = poi_index'])
          /\ imported' = imported + 1
          /\ path' = "poi"
          /\ nread' = nread + 1
          /\ pc' = "loop"
          /\ UNCHANGED <<region, files, engineFailed, geo_features, geo_index,
                         outvars, failed, exitStatus, callvars>>

NextRecord == \E c \in FeatureChoices : ProcessRecord(Feature(c))

\* data["features"] is exhausted; db.commit() and db.close()
Commit ==
  /\ pc = "loop"
  /\ disk' = View
  /\ pc' = "cleanup"
  /\ UNCHANGED <<region, files, engineFailed, tables, loopvars, outvars,
                 failed, exitStatus, callvars>>

\* filtered_pbf.unlink(missing_ok=True); geojson.unlink(missing_ok=True)
CleanupTemporaries ==
  /\ pc = "cleanup"
  /\ filtered_pbf' = filtered_pbf \ {region}
  /\ geojson' = geojson \ {region}
  /\ pc' = "report"
  /\ UNCHANGED <<region, engineFailed, disk, tables, loopvars, outvars,
                 failed, exitStatus, callvars>>

\* the summary lines; build_region returns to main's loop
ReportCounts ==
  /\ pc = "report"
  /\ reported' = imported
  /\ finished' = finished + 1
  /\ pc' = "main"
  /\ UNCHANGED <<region, files, engineFailed, disk, tables, loopvars,
                 banner, failed, exitStatus, callvars>>

Next ==
  \/ NoFiles
  \/ BeginRegion
  \/ FilterExtract
  \/ ExportRecords
  \/ CreateSchema
  \/ ParseRecords
  \/ NextRecord
  \/ Commit
  \/ CleanupTemporaries
  \/ ReportCounts
  \/ AllComplete

Spec == Init /\ [][Next]_vars

\* ------------------------------------------------------------ classify, alone
InitClassify ==
  /\ pc = "classify"
  /\ region = 0
  /\ filtered_pbf = {}
  /\ geojson = {}
  /\ engineFailed = {}
  /\ disk = EmptyStore
  /\ pois = EmptyTable
  /\ poi_index = EmptyTable
  /\ geo_features = EmptyTable
  /\ geo_index = EmptyTable
  /\ imported = 0
  /\ nread = 0
  /\ path = "none"
  /\ finished = 0
  /\ reported = 0
  /\ banner = FALSE
  /\ failed = "none"
  /\ exitStatus = 0
  /\ props \in TagMappings(NoTags)
  /\ classification = <<>>

ClassifyCall ==
  /\ pc = "classify"
  /\ classification' = classify(props)
  /\ pc' = "classified"
  /\ UNCHANGED <<region, files, engineFailed, disk, tables, loopvars,
                 outvars, failed, exitStatus, props>>

NextClassify == ClassifyCall

SpecClassify == InitClassify /\ [][NextClassify]_vars

\* ============================================================ claims

\* ------------------------------------------------------------ C1
\* The rules of the classification table, each with its condition and its
\* outcome; strict tells whether "present" asks for a non-empty value.
Present(v, strict) == v # None /\ (strict => v # "")

FoodCodes == [cafe |-> 10, pub |-> 11, restaurant |-> 12, fast_food |-> 13, bar |-> 14]
PlaceCodes == [city |-> 100, town |-> 101, village |-> 102, hamlet |-> 103, suburb |-> 104]

RuleMatches(rule, t, strict) ==
  CASE rule = "castle" -> t.historic = "castle"
    [] rule = "abbey" -> t.historic \in {"abbey", "monastery"}
    [] rule = "worship" -> t.amenity = "place_of_worship"
    [] rule = "historic" -> Present(t.historic, strict)
    [] rule = "food" -> t.amenity \in DOMAIN FoodCodes
    [] rule = "shop" -> Present(t.shop, strict)
    [] rule = "tourism" -> t.tourism \in {"attraction", "museum", "viewpoint"}
    [] rule = "leisure" -> Present(t.leisure, strict)
    [] rule = "peak" -> t.natural = "peak"
    [] rule = "survey_point" -> t.man_made = "survey_point"
    [] rule = "place" -> t.place \in DOMAIN PlaceCodes

RuleOutcome(rule, t) ==
  CASE rule = "castle" -> <<1, "castle">>
    [] rule = "abbey" -> <<2, "abbey">>
    [] rule = "worship" -> <<3, IF t.religion = None THEN "worship" ELSE t.religion>>
    [] rule = "historic" -> <<7, t.historic>>
    [] rule = "food" -> <<FoodCodes[t.amenity], t.amenity>>
    [] rule = "shop" -> <<20, t.shop>>
    [] rule = "tourism" -> <<30, t.tourism>>
    [] rule = "leisure" -> <<40, t.leisure>>
    [] rule = "peak" -> <<50, "peak">>
    [] rule = "survey_point" -> <<51, "trig_point">>
    [] rule = "place" -> <<PlaceCodes[t.place], t.place>>

FirstMatch(order, t, strict) ==
  LET hits == { i \in 1..Len(order) : RuleMatches(order[i], t, strict) }
  IN  IF hits = {} THEN <<>>
      ELSE RuleOutcome(order[CHOOSE i \in hits : \A j \in hits : i <= j], t)

\* the checking order the specification gives
SpecOrder ==
  <<"castle", "abbey", "worship", "historic", "food", "shop", "tourism",
    "leisure", "peak", "survey_point", "place">>

\* the order in which classify checks
CodeOrder ==
  <<"place", "castle", "abbey", "historic", "worship", "food", "shop",
    "tourism", "leisure", "peak", "survey_point">>

CastleInCity(t) == t.historic = "castle" /\ t.place = "city"

IdsPaired ==
  /\ DOMAIN pois = DOMAIN poi_index
  /\ DOMAIN geo_features = DOMAIN geo_index

\* the record goes to the geo tables / to the POI tables when it is stored
IsGeoRecord(t) == t.place = "island" \/ t.natural = "peak"

\* every row of the table is in the table after the step, as it was
RowsKept(table, after) ==
  \A i \in DOMAIN table : i \in DOMAIN after /\ after[i] = table[i]

\* a record with an id one of its tables already holds leaves that table and
\* its index as they are, and no record of the loop changes a row written
\* before it
DuplicateKept ==
  /\ \A c \in FeatureChoices :
       LET t == Feature(c).properties IN
       /\ (t.id \in DOMAIN pois /\ ~IsGeoRecord(t) /\ ProcessRecord(Feature(c))) =>
            UNCHANGED <<pois, poi_index>>
       /\ (t.id \in DOMAIN geo_features /\ IsGeoRecord(t) /\ ProcessRecord(Feature(c))) =>
            UNCHANGED <<geo_features, geo_index>>
  /\ pc = "loop" =>
       /\ RowsKept(pois, pois')
       /\ RowsKept(poi_index, poi_index')
       /\ RowsKept(geo_features, geo_features')
       /\ RowsKept(geo_index, geo_index')

\* C2: at every point of a region build pois and poi_index hold the same ids
\* and geo_features and geo_index hold the same ids; a record whose id its
\* table already holds changes neither the table nor its index, and every row
\* and index entry written earlier stays as it was written.
C2_PairedFirstWins == IdsPaired /\ [][IdsPaired' /\ DuplicateKept]_vars

\* a POI record was counted and not stored: its id was already in pois
C2_Witness ==
  /\ path = "poi"
  /\ imported > Cardinality(DOMAIN pois)
  /\ DOMAIN pois # {}
  /\ IdsPaired

\* ------------------------------------------------------------ C3
\* C3: once a region has reported, the count it printed is the number of
\* rows of pois in its store.
C3_CountEqualsRows ==
  (pc = "main" /\ finished > 0) => reported = Cardinality(DOMAIN disk.pois)

\* ------------------------------------------------------------ C4
\* C4: whenever no region build is under way (before the next region, or
\* after the run has ended, normally or not) no filtered extract and no
\* exported record file exists.
C4_TemporariesRemoved ==
  pc \in {"main", "exit"} => filtered_pbf = {} /\ geojson = {}

\* ------------------------------------------------------------ C5
\* C5: no record makes the record loop raise: the build never ends in the
\* loop body.
C5_NoRecordAborts == failed # "record"

\* ------------------------------------------------------------ C6
\* C6: a record tagged place=island or natural=peak changes neither pois nor
\* poi_index nor the imported count, and no row of pois carries such tags.
C6_GeoExclusive ==
  /\ \A i \in DOMAIN pois : ~IsGeoRecord(pois[i].tags)
  /\ [][ /\ \A c \in FeatureChoices :
              (IsGeoRecord(Feature(c).properties) /\ ProcessRecord(Feature(c))) =>
                UNCHANGED <<pois, poi_index, imported>>
         /\ \A i \in DOMAIN pois' : ~IsGeoRecord(pois'[i].tags) ]_vars

\* a named peak, which classify would give (50, "peak"), is in geo_features
\* and the POI side is untouched
C6_Witness ==
  /\ path = "geo"
  /\ imported = 0
  /\ pois = EmptyTable
  /\ \E i \in DOMAIN geo_features :
       /\ geo_features[i].kind = "peak"
       /\ Truthy(geo_features[i].tags.name)
       /\ classify(geo_features[i].tags) = <<50, "peak">>

\* ------------------------------------------------------------ C7
\* C7: the store file holds either no row of this build, or, after commit,
\* exactly the rows the build wrote.
C7_AtomicVisibility ==
  \/ disk = EmptyStore
  \/ pc \in {"cleanup", "report", "main", "exit"} /\ disk = View

C7_Witness ==
  /\ pc = "cleanup"
  /\ disk = View
  /\ DOMAIN disk.pois # {}
  /\ DOMAIN disk.geo_features # {}

\* ------------------------------------------------------------ C8
Building == pc \in {"filter", "export", "schema", "load", "loop", "cleanup", "report"}

\* C8: when an osmium call has failed for region k, the run has ended with
\* exit status 1 in region k, with no record read or stored and no banner;
\* and a region is under way only when every region before it has reported.
C8_FailFast ==
  /\ \A k \in engineFailed :
       /\ pc = "exit"
       /\ exitStatus = 1
       /\ failed \in {"filter", "export"}
       /\ region = k
       /\ nread = 0
       /\ View = EmptyStore
       /\ disk = EmptyStore
       /\ ~banner
  /\ Building => finished = region - 1
  /\ pc = "main" => finished = region
  /\ banner => exitStatus = 0 /\ failed = "none" /\ finished = region

\* the engine fails for the second region, after the first has reported
C8_Witness ==
  /\ engineFailed = {2}
  /\ finished = 1
  /\ pc = "exit"

\* ------------------------------------------------------------ C9
ExpectedName ==
  [standing_stone |-> "Standing Stone", megalith |-> "Megalith", stone |-> "Stone"]

NameOk(row) ==
  /\ row.name # None
  /\ row.name # ""
  /\ IF Truthy(row.tags.name)
       THEN row.name = row.tags.name
       ELSE /\ row.tags.historic \in DOMAIN ExpectedName
            /\ row.name = ExpectedName[row.tags.historic]
  /\ [row.tags EXCEPT !.id = NoId] = [NoTags EXCEPT !.historic = "standing_stone"] =>
       row.type = 7 /\ row.subtype = "standing_stone"

Nameless(t) == ~Truthy(t.name) /\ t.historic \notin DOMAIN ExpectedName

\* C9: every row of pois has a non-empty name, the name tag when that is
\* non-empty and otherwise "Standing Stone", "Megalith" or "Stone" for the
\* historic value; {historic: standing_stone} is stored as type 7, subtype
\* "standing_stone"; a record with no name and no such historic value leaves
\* the loop body before classify and changes nothing on the POI side.
C9_NamedPois ==
  /\ \A i \in DOMAIN pois : NameOk(pois[i])
  /\ [][ /\ \A i \in DOMAIN pois' : NameOk(pois'[i])
         /\ \A c \in FeatureChoices :
              (Nameless(Feature(c).properties) /\ ProcessRecord(Feature(c))) =>
                /\ path' \notin {"noclass", "poi"}
                /\ UNCHANGED <<pois, poi_index, imported>> ]_vars

C9_Witness ==
  \E i \in DOMAIN pois :
    /\ ~Truthy(pois[i].tags.name)
    /\ pois[i].tags.historic = "standing_stone"
    /\ pois[i].name = "Standing Stone"
    /\ pois[i].type = 7
    /\ pois[i].subtype = "standing_stone"

\* ------------------------------------------------------------ C10
\* C10: a record without an id adds no row: no row of pois or geo_features
\* comes from a record whose id is missing.
C10_MissingIdSkipped ==
  /\ \A i \in DOMAIN pois : pois[i].tags.id # NoId
  /\ \A i \in DOMAIN geo_features : geo_features[i].tags.id # NoId

====
